---- MODULE Spec2Model ----
(***************************************************************************)
(* Model of integration-tests/bots_runner.py: the Runner (main) and its    *)
(* BotPlayer tasks.  Every BotPlayer owns a Socket.IO client; the backend  *)
(* and the client library are the environment.  A step of the model is the *)
(* code a task runs between two suspension points (an await on the         *)
(* client: connect, emit, disconnect, wait).  An emission is the bot's     *)
(* call of sio.emit.                                                       *)
(***************************************************************************)
EXTENDS Integers, Sequences, FiniteSets, TLC

(* ---------------- bounds of the model ---------------- *)
\* events the backend sends to one bot during a run
MaxInbound == 3
\* events of one bot that are sent and not yet dispatched
MaxInflight == 1
\* events the backend sends to all the bots of a run of several bots
MaxShared == 2
\* largest number of rows / columns of a boardState grid
MaxRows == 2
MaxCols == 2

(* ---------------- program constants ---------------- *)
NUM_BOTS == 1
\* range(10) of play_game
BurstLen == 10
\* config.get('rows', 8), config.get('cols', 8)
DefaultDim == 8

Bots == 0 .. (NUM_BOTS - 1)

(* ---------------- values ---------------- *)
\* Python's None for the str fields, and an absent dictionary key
NoneStr == "None"
\* Optional values: <<>> is an absent key (dict.get gives None), <<v>> is v
Absent == <<>>
Some(v) == <<v>>
Get(opt, default) == IF opt = Absent THEN default ELSE opt[1]

\* f'Bot_{bot_id}'
username(b) == "Bot_" \o ToString(b)
\* f"testgame_{self.bot_id}_{int(time.time())}"
placeholder(b) == "testgame_" \o ToString(b) \o "_t"

\* ids the backend may confirm
GameIds == {"g1", "g2"}
PlayerIds == {"p1"}

\* a response of the backend: falsy (None, {}), or a truthy dict that
\* carries the key or not
Falsy == [truthy |-> FALSE, id |-> NoneStr]
Responses(ids) == {Falsy} \cup [truthy : {TRUE}, id : ids \cup {NoneStr}]

\* a cell record of the grid: {'revealed': True}, {'revealed': False}, {}
Cells == {"revealed", "hidden", "nokey"}
\* cell.get('revealed', False)
cell_revealed(cell) == cell = "revealed"

Grids == UNION {[1 .. r -> [1 .. c -> Cells]] : r \in 1 .. MaxRows, c \in 1 .. MaxCols}
\* the boardState key: absent, an empty list, or a grid
Boards == {Absent, Some(<<>>)} \cup {Some(g) : g \in Grids}
Dims == {Absent} \cup {Some(n) : n \in 0 .. (MaxRows + 1)}
DimsC == {Absent} \cup {Some(n) : n \in 0 .. (MaxCols + 1)}
\* the boardConfig key: absent, or a dict with or without rows, cols and
\* other keys ({} is the dict without any)
Configs ==
    {Absent} \cup
    {Some(cfg) : cfg \in {c \in [rows : Dims, cols : DimsC, other : BOOLEAN] :
                             c.other => (c.rows = Absent /\ c.cols = Absent)}}
GameStates == [boardState : Boards, boardConfig : Configs]

VARIABLES
    game_id,      \* BotPlayer.game_id
    player_id,    \* BotPlayer.player_id
    connected,    \* BotPlayer.connected
    game_over,    \* BotPlayer.game_over
    sio,          \* state of the bot's client connection
    registered,   \* the inbound events the bot registered a handler for
    pc,           \* position of the bot's connect() task
    play,         \* the play_game invocations of the bot
    inbox,        \* events the backend sent, not yet dispatched
    nsent,        \* events the backend has sent to the bot
    sent,         \* emissions of the bot so far, by event name
    emitted,      \* the emission of the latest step, if any
    last,         \* the handler that ran in the latest step, if any
    handled,      \* the kinds of inbound events the bot's handlers have run for
    runner        \* state of main()

vars == <<game_id, player_id, connected, game_over, sio, registered, pc, play,
          inbox, nsent, sent, emitted, last, handled, runner>>

fields == <<game_id, player_id, connected, game_over>>

(* ---------------- messages and emissions ---------------- *)
Created(r) == [type |-> "gameCreated", data |-> r]
Joined(r) == [type |-> "gameJoined", data |-> r]
State(d) == [type |-> "gameState", data |-> d]
Over == [type |-> "gameOver", data |-> [outcome |-> "won"]]

\* the gameState payloads the backend sends during a run
RunStates ==
    { [boardState |-> Absent, boardConfig |-> Some([rows |-> Some(1), cols |-> Some(1), other |-> FALSE])],
      [boardState |-> Some(<<<<"hidden">>>>), boardConfig |-> Absent],
      [boardState |-> Some(<<<<"revealed">>>>), boardConfig |-> Some([rows |-> Some(1), cols |-> Some(1), other |-> FALSE])],
      [boardState |-> Some(<<<<"revealed", "hidden">>>>), boardConfig |-> Some([rows |-> Some(1), cols |-> Some(2), other |-> FALSE])],
      [boardState |-> Some(<<<<"hidden">>>>), boardConfig |-> Some([rows |-> Some(2), cols |-> Some(1), other |-> FALSE])] }

Messages ==
    {Created(r) : r \in Responses(GameIds)} \cup {Joined(r) : r \in Responses(PlayerIds)}
        \cup {State(d) : d \in RunStates} \cup {Over}

NoEmission == <<>>
NoHandler == [bot |-> -1, op |-> "none", data |-> <<>>, error |-> "none"]
NoCounts == [createGame |-> 0, joinGame |-> 0, revealTile |-> 0, reveal_tile |-> 0]

\* await self.sio.emit(event, payload): the emission and its count
Emit(b, e) ==
    /\ emitted' = <<e>>
    /\ sent' = [sent EXCEPT ![b][e.event] = @ + 1]

Silent == emitted' = NoEmission /\ UNCHANGED sent

\* what is kept of a handled event: its name, the truthiness of its payload
\* and the id a response carries
Kind(m) ==
    [type |-> m.type,
     truthy |-> IF m.type \in {"gameCreated", "gameJoined"} THEN m.data.truthy ELSE TRUE,
     id |-> IF m.type \in {"gameCreated", "gameJoined"} THEN m.data.id ELSE NoneStr]

Ran(b, op, err) ==
    /\ last' = [bot |-> b, op |-> op, data |-> Head(inbox[b]).data, error |-> err]
    /\ handled' = [handled EXCEPT ![b] = @ \cup {Kind(Head(inbox[b]))}]

NoRun == last' = NoHandler /\ UNCHANGED handled

\* the connection delivers events: from sio.connect() until disconnect()
\* has completed
Open(b) == sio[b] \in {"connected", "disconnecting"}

(* ---------------- BotPlayer.__init__ and main ---------------- *)
Init ==
    /\ game_id = [b \in Bots |-> NoneStr]
    /\ player_id = [b \in Bots |-> NoneStr]
    /\ connected = [b \in Bots |-> FALSE]
    /\ game_over = [b \in Bots |-> FALSE]
    /\ sio = [b \in Bots |-> "idle"]
    /\ registered = [b \in Bots |-> {}]
    /\ pc = [b \in Bots |-> "start"]
    /\ play = [b \in Bots |-> <<>>]
    /\ inbox = [b \in Bots |-> <<>>]
    /\ nsent = [b \in Bots |-> 0]
    /\ sent = [b \in Bots |-> NoCounts]
    /\ emitted = NoEmission
    /\ last = NoHandler
    /\ handled = [b \in Bots |-> {}]
    /\ runner = "running"

(* ---------------- BotPlayer.connect ---------------- *)
\* main: asyncio.gather starts bot.connect(), which suspends in sio.connect
connect(b) ==
    /\ runner = "running"
    /\ pc[b] = "start"
    /\ pc' = [pc EXCEPT ![b] = "connecting"]
    /\ Silent
    /\ NoRun
    /\ UNCHANGED <<fields, sio, registered, play, inbox, nsent, runner>>

\* self.game_id = placeholder; emit('createGame', {'username': ...})
create_and_join_game(b) ==
    /\ game_id' = [game_id EXCEPT ![b] = placeholder(b)]
    /\ Emit(b, [bot |-> b, event |-> "createGame", username |-> username(b)])

\* sio.connect succeeded: lines 28-34 and create_and_join_game up to its emit
connect_ok(b) ==
    /\ runner = "running"
    /\ pc[b] = "connecting"
    /\ sio' = [sio EXCEPT ![b] = "connected"]
    /\ connected' = [connected EXCEPT ![b] = TRUE]
    /\ registered' = [registered EXCEPT ![b] = {"gameState", "gameOver", "gameCreated", "gameJoined"}]
    /\ create_and_join_game(b)
    /\ pc' = [pc EXCEPT ![b] = "creating"]
    /\ NoRun
    /\ UNCHANGED <<player_id, game_over, play, inbox, nsent, runner>>

\* (variant: no except clause, the exception leaves connect())
connect_except_propagates == "raised"

\* what connect() does with an exception of its try block: the except
\* clause logs it and the routine returns
connect_except == "returned"

\* sio.connect raised
connect_failed(b) ==
    /\ runner = "running"
    /\ pc[b] = "connecting"
    /\ pc' = [pc EXCEPT ![b] = connect_except]
    /\ Silent
    /\ NoRun
    /\ UNCHANGED <<fields, sio, registered, play, inbox, nsent, runner>>

\* the createGame emit is through: line 46, then await self.sio.wait()
create_done(b) ==
    /\ runner = "running"
    /\ pc[b] = "creating"
    /\ pc' = [pc EXCEPT ![b] = "waiting"]
    /\ Silent
    /\ NoRun
    /\ UNCHANGED <<fields, sio, registered, play, inbox, nsent, runner>>

\* (variant: connect() does not stay in sio.wait())
wait_released_at_once(b) == TRUE

\* await self.sio.wait() is over when the connection has ended
wait_released(b) == sio[b] = "disconnected"

\* sio.wait() returns once the connection has ended; finally, return
wait_returns(b) ==
    /\ runner = "running"
    /\ pc[b] = "waiting"
    /\ wait_released(b)
    /\ pc' = [pc EXCEPT ![b] = "returned"]
    /\ Silent
    /\ NoRun
    /\ UNCHANGED <<fields, sio, registered, play, inbox, nsent, runner>>

\* (variant: main() waits for the first bot only)
gather_first == \E b \in DOMAIN pc : pc[b] = "returned"

\* await asyncio.gather(*(bot.connect() for bot in bots))
gather_done == \A b \in DOMAIN pc : pc[b] = "returned"

\* asyncio.gather returns when every bot.connect() has returned, and raises
\* the first exception one of them raised
main_returns ==
    /\ runner = "running"
    /\ \/ /\ gather_done
          /\ runner' = "done"
       \/ /\ \E b \in DOMAIN pc : pc[b] = "raised"
          /\ runner' = "failed"
    /\ Silent
    /\ NoRun
    /\ UNCHANGED <<fields, sio, registered, pc, play, inbox, nsent>>

(* ---------------- the backend and the client library ---------------- *)
\* the backend sends an event over the bot's open connection
Send(b, m) ==
    /\ runner = "running"
    /\ Open(b)
    /\ nsent[b] < MaxInbound
    /\ Len(inbox[b]) < MaxInflight
    /\ inbox' = [inbox EXCEPT ![b] = Append(@, m)]
    /\ nsent' = [nsent EXCEPT ![b] = @ + 1]
    /\ Silent
    /\ NoRun
    /\ UNCHANGED <<fields, sio, registered, pc, play, runner>>

\* the client takes the next event and calls the handler registered for it
Dispatch(b, type) ==
    /\ runner = "running"
    /\ Open(b)
    /\ inbox[b] # <<>>
    /\ Head(inbox[b]).type = type
    /\ type \in registered[b]
    /\ inbox' = [inbox EXCEPT ![b] = Tail(@)]

\* sio.disconnect() completes
disconnected(b) ==
    /\ runner = "running"
    /\ sio[b] = "disconnecting"
    /\ sio' = [sio EXCEPT ![b] = "disconnected"]
    /\ Silent
    /\ NoRun
    /\ UNCHANGED <<fields, registered, pc, play, inbox, nsent, runner>>

(* ---------------- BotPlayer.on_game_created ---------------- *)
\* (variant: the server's id is not stored)
created_game_id_kept(b, response) == game_id[b]

\* self.game_id = response['gameId']
created_game_id(b, response) == response.id

\* (variant: the payload built before self.game_id is assigned)
join_payload_stale(b, response) ==
    [bot |-> b, event |-> "joinGame", gameId |-> game_id[b], username |-> username(b)]

\* {'gameId': self.game_id, 'username': self.username}, after the assignment
\* self.game_id = response['gameId']
join_payload(b, response) ==
    [bot |-> b, event |-> "joinGame", gameId |-> response.id, username |-> username(b)]

\* (variant: a rejected createGame is tried again)
create_rejected_retry(b) ==
    Emit(b, [bot |-> b, event |-> "createGame", username |-> username(b)])

\* (variant: the joinGame emit outside the if, with the id the bot holds)
create_rejected_join(b) ==
    Emit(b, [bot |-> b, event |-> "joinGame", gameId |-> game_id[b], username |-> username(b)])

\* else: print("Failed to create game")
create_rejected(b) == Silent

on_game_created(b) ==
    /\ Dispatch(b, "gameCreated")
    /\ LET response == Head(inbox[b]).data IN
       IF response.truthy
       THEN IF response.id = NoneStr
            THEN \* response['gameId'] raises KeyError
                 /\ Ran(b, "on_game_created", "KeyError")
                 /\ Silent
                 /\ UNCHANGED game_id
            ELSE /\ Ran(b, "on_game_created", "none")
                 /\ game_id' = [game_id EXCEPT ![b] = created_game_id(b, response)]
                 /\ Emit(b, join_payload(b, response))
       ELSE /\ Ran(b, "on_game_created", "none")
            /\ create_rejected(b)
            /\ UNCHANGED game_id
    /\ UNCHANGED <<player_id, connected, game_over, sio, registered, pc, play, nsent, runner>>

(* ---------------- BotPlayer.play_game ---------------- *)
\* one iteration of the loop: emit('revealTile', ...) with the game id the
\* bot holds at that moment
\* (variant: the player id where the game id belongs)
burst_emit_player_id(b) ==
    Emit(b, [bot |-> b, event |-> "revealTile", gameId |-> player_id[b],
             playerId |-> username(b)])

\* (x and y are random.randint(0, 7) each; nothing reads them back)
burst_emit(b) ==
    Emit(b, [bot |-> b, event |-> "revealTile", gameId |-> game_id[b],
             playerId |-> username(b)])

\* (variant: one iteration too many)
burst_continues_once_more(n) == n <= BurstLen

\* for i in range(10)
burst_continues(n) == n < BurstLen

\* a play_game invocation resumes after an emit: the next iteration, or
\* the end of the loop
play_step(b, t) ==
    /\ runner = "running"
    /\ t \in DOMAIN play[b]
    /\ ~play[b][t].done
    /\ IF burst_continues(play[b][t].n)
       THEN /\ burst_emit(b)
            /\ play' = [play EXCEPT ![b][t].n = @ + 1]
       ELSE /\ Silent
            /\ play' = [play EXCEPT ![b][t].done = TRUE]
    /\ NoRun
    /\ UNCHANGED <<fields, sio, registered, pc, inbox, nsent, runner>>

(* ---------------- BotPlayer.on_game_joined ---------------- *)
\* (variant: the username taken for the player id, as play_game does)
joined_player_id_username(b, response) == username(b)

\* self.player_id = response['playerId']
joined_player_id(b, response) == response.id

on_game_joined(b) ==
    /\ Dispatch(b, "gameJoined")
    /\ LET response == Head(inbox[b]).data IN
       IF response.truthy
       THEN IF response.id = NoneStr
            THEN \* response['playerId'] raises KeyError
                 /\ Ran(b, "on_game_joined", "KeyError")
                 /\ Silent
                 /\ UNCHANGED <<player_id, play>>
            ELSE \* play_game runs up to its first emit
                 /\ Ran(b, "on_game_joined", "none")
                 /\ player_id' = [player_id EXCEPT ![b] = joined_player_id(b, response)]
                 /\ burst_emit(b)
                 /\ play' = [play EXCEPT ![b] = Append(@, [n |-> 1, done |-> FALSE])]
       ELSE /\ Ran(b, "on_game_joined", "none")
            /\ Silent
            /\ UNCHANGED <<player_id, play>>
    /\ UNCHANGED <<game_id, connected, game_over, sio, registered, pc, nsent, runner>>

(* ---------------- BotPlayer.make_random_move ---------------- *)
\* not board, not config: None, an empty list and an empty dict are falsy
board_falsy(board) == board = Absent \/ board[1] = <<>>
config_falsy(config) ==
    \/ config = Absent
    \/ (config[1].rows = Absent /\ config[1].cols = Absent /\ ~config[1].other)

\* board[r][c] of the comprehension raises IndexError
index_error(grid, rows, cols) ==
    \E r \in 0 .. (rows - 1), c \in 0 .. (cols - 1) :
        \/ r + 1 > Len(grid)
        \/ c + 1 > Len(grid[r + 1])

\* (variant: the comprehension without its filter)
unrevealed_unfiltered(grid, rows, cols) == (0 .. (rows - 1)) \X (0 .. (cols - 1))

\* [(r, c) for r in range(rows) for c in range(cols)
\*         if not board[r][c].get('revealed', False)]
unrevealed(grid, rows, cols) ==
    {rc \in (0 .. (rows - 1)) \X (0 .. (cols - 1)) :
        ~cell_revealed(grid[rc[1] + 1][rc[2] + 1])}

\* (variant: returns only when both are missing)
no_move_both(board, config) == board_falsy(board) /\ config_falsy(config)

\* if not board or not config: return
no_move(board, config) == board_falsy(board) \/ config_falsy(config)

\* the error make_random_move(game_state) raises, if any
move_error(game_state) ==
    LET board == game_state.boardState
        config == game_state.boardConfig
    IN  IF no_move(board, config) THEN "none"
        ELSE IF config = Absent THEN "AttributeError"
        ELSE LET rows == Get(config[1].rows, DefaultDim)
                 cols == Get(config[1].cols, DefaultDim)
             IN  IF rows < 1 \/ cols < 1 THEN "none"
                 ELSE IF board = Absent THEN "TypeError"
                 ELSE IF index_error(board[1], rows, cols) THEN "IndexError"
                 ELSE "none"

\* the list random.choice draws from (empty: no emission)
move_choices(game_state) ==
    LET board == game_state.boardState
        config == game_state.boardConfig
    IN  IF no_move(board, config) \/ move_error(game_state) # "none" THEN {}
        ELSE unrevealed(board[1], Get(config[1].rows, DefaultDim),
                        Get(config[1].cols, DefaultDim))

\* (variant: row and column the wrong way round)
move_position_swapped(rc) == [x |-> rc[1], y |-> rc[2]]

\* {'position': {'x': col, 'y': row}} for the chosen (row, col)
move_position(rc) == [x |-> rc[2], y |-> rc[1]]

make_random_move(b, game_state) ==
    IF move_choices(game_state) = {}
    THEN Silent
    ELSE \E rc \in move_choices(game_state) :
            Emit(b, [bot |-> b, event |-> "reveal_tile", position |-> move_position(rc)])

(* ---------------- BotPlayer.on_game_state ---------------- *)
\* (variant: the handler does not look at the flag)
on_game_state_unguarded(b) == TRUE

\* if not self.game_over
on_game_state_guard(b) == ~game_over[b]

on_game_state(b) ==
    /\ Dispatch(b, "gameState")
    /\ LET data == Head(inbox[b]).data IN
       IF on_game_state_guard(b)
       THEN /\ Ran(b, "on_game_state", move_error(data))
            /\ make_random_move(b, data)
       ELSE /\ Ran(b, "on_game_state", "none")
            /\ Silent
    /\ UNCHANGED <<fields, sio, registered, pc, play, nsent, runner>>

(* ---------------- BotPlayer.on_game_over ---------------- *)
\* (variant: the flag as a class attribute that all bots share)
set_game_over_shared(b) == [j \in DOMAIN game_over |-> TRUE]

\* self.game_over = True
set_game_over(b) == [game_over EXCEPT ![b] = TRUE]

\* sets the flag and suspends in sio.disconnect()
on_game_over(b) ==
    /\ Dispatch(b, "gameOver")
    /\ Ran(b, "on_game_over", "none")
    /\ game_over' = set_game_over(b)
    /\ sio' = [sio EXCEPT ![b] = "disconnecting"]
    /\ Silent
    /\ UNCHANGED <<game_id, player_id, connected, registered, pc, play, nsent, runner>>

(* ---------------- the run ---------------- *)
Next ==
    \/ \E b \in DOMAIN pc : connect(b)
    \/ \E b \in DOMAIN pc : connect_ok(b)
    \/ \E b \in DOMAIN pc : connect_failed(b)
    \/ \E b \in DOMAIN pc : create_done(b)
    \/ \E b \in DOMAIN pc : wait_returns(b)
    \/ main_returns
    \/ \E b \in DOMAIN pc, m \in Messages : Send(b, m)
    \/ \E b \in DOMAIN pc : disconnected(b)
    \/ \E b \in DOMAIN pc : on_game_created(b)
    \/ \E b \in DOMAIN pc : on_game_joined(b)
    \/ \E b \in DOMAIN pc : on_game_state(b)
    \/ \E b \in DOMAIN pc : on_game_over(b)
    \/ \E b \in DOMAIN pc : \E t \in DOMAIN play[b] : play_step(b, t)

Spec == Init /\ [][Next]_vars

(* ---------------- move selection over every board snapshot ---------------- *)
\* a connected bot waiting in sio.wait(), before or after it saw gameOver,
\* with one gameState event of any payload on its way
InitMove ==
    /\ game_id = [b \in Bots |-> placeholder(b)]
    /\ player_id = [b \in Bots |-> NoneStr]
    /\ connected = [b \in Bots |-> TRUE]
    /\ \E over \in BOOLEAN :
          /\ game_over = [b \in Bots |-> over]
          /\ sio = [b \in Bots |-> IF over THEN "disconnecting" ELSE "connected"]
          /\ handled = [b \in Bots |-> IF over THEN {Kind(Over)} ELSE {}]
    /\ registered = [b \in Bots |-> {"gameState", "gameOver", "gameCreated", "gameJoined"}]
    /\ pc = [b \in Bots |-> "waiting"]
    /\ play = [b \in Bots |-> <<>>]
    /\ \E d \in GameStates : inbox = [b \in Bots |-> <<State(d)>>]
    /\ nsent = [b \in Bots |-> MaxInbound]
    /\ sent = [b \in Bots |-> [NoCounts EXCEPT !.createGame = 1]]
    /\ emitted = NoEmission
    /\ last = NoHandler
    /\ runner = "running"

NextMove == \E b \in DOMAIN pc : on_game_state(b)

SpecMove == InitMove /\ [][NextMove]_vars


(* ---------------- a run of several bots ---------------- *)
\* NUM_BOTS changed "to desired concurrency": two bots
MultiBots == {0, 1}

\* the events the backend sends in such a run
MultiMessages ==
    { Created(Falsy), Created([truthy |-> TRUE, id |-> "g1"]),
      Created([truthy |-> TRUE, id |-> NoneStr]),
      Joined(Falsy), Joined([truthy |-> TRUE, id |-> "p1"]),
      State([boardState |-> Some(<<<<"hidden">>>>),
             boardConfig |-> Some([rows |-> Some(1), cols |-> Some(1), other |-> FALSE])]),
      Over }

InitMulti ==
    /\ game_id = [b \in MultiBots |-> NoneStr]
    /\ player_id = [b \in MultiBots |-> NoneStr]
    /\ connected = [b \in MultiBots |-> FALSE]
    /\ game_over = [b \in MultiBots |-> FALSE]
    /\ sio = [b \in MultiBots |-> "idle"]
    /\ registered = [b \in MultiBots |-> {}]
    /\ pc = [b \in MultiBots |-> "start"]
    /\ play = [b \in MultiBots |-> <<>>]
    /\ inbox = [b \in MultiBots |-> <<>>]
    /\ nsent = [b \in MultiBots |-> 0]
    /\ sent = [b \in MultiBots |-> NoCounts]
    /\ emitted = NoEmission
    /\ last = NoHandler
    /\ handled = [b \in MultiBots |-> {}]
    /\ runner = "running"

RECURSIVE Total(_, _)
Total(f, S) ==
    IF S = {} THEN 0
    ELSE LET b == CHOOSE x \in S : TRUE IN f[b] + Total(f, S \ {b})

SendShared(b, m) ==
    /\ Total(nsent, DOMAIN nsent) < MaxShared
    /\ Send(b, m)

NextMulti ==
    \/ \E b \in DOMAIN pc : connect(b)
    \/ \E b \in DOMAIN pc : connect_ok(b)
    \/ \E b \in DOMAIN pc : connect_failed(b)
    \/ \E b \in DOMAIN pc : create_done(b)
    \/ \E b \in DOMAIN pc : wait_returns(b)
    \/ main_returns
    \/ \E b \in DOMAIN pc, m \in MultiMessages : SendShared(b, m)
    \/ \E b \in DOMAIN pc : disconnected(b)
    \/ \E b \in DOMAIN pc : on_game_created(b)
    \/ \E b \in DOMAIN pc : on_game_joined(b)
    \/ \E b \in DOMAIN pc : on_game_state(b)
    \/ \E b \in DOMAIN pc : on_game_over(b)
    \/ \E b \in DOMAIN pc : \E t \in DOMAIN play[b] : play_step(b, t)

SpecMulti == InitMulti /\ [][NextMulti]_vars

\* the event loop runs every task that is ready, and a disconnect that was
\* requested completes
FairMulti ==
    /\ SpecMulti
    /\ \A b \in MultiBots :
          /\ WF_vars(create_done(b))
          /\ WF_vars(disconnected(b))
          /\ WF_vars(wait_returns(b))
    /\ WF_vars(main_returns)

(* ======================= properties ======================= *)
\* the step dispatches an event of the given name to bot b
Handling(b, type) ==
    /\ inbox[b] # <<>>
    /\ Head(inbox[b]).type = type
    /\ inbox'[b] = Tail(inbox[b])

\* the latest step ran handler op of bot b
JustRan(b, op) == last.op = op /\ last.bot = b

CreateOnly == [NoCounts EXCEPT !.createGame = 1]

\* a boardState grid with the boardConfig that gives its rows and columns
IsSnapshot(d) ==
    /\ d.boardState # Absent
    /\ d.boardState[1] # <<>>
    /\ d.boardConfig # Absent
    /\ d.boardConfig[1].rows = Some(Len(d.boardState[1]))
    /\ d.boardConfig[1].cols = Some(Len(d.boardState[1][1]))

HiddenCells(d) ==
    {rc \in (1 .. Len(d.boardState[1])) \X (1 .. Len(d.boardState[1][1])) :
        d.boardState[1][rc[1]][rc[2]] # "revealed"}

\* C1: once game_over is set it stays set, and from then on no step (a
\* gameState event in particular) adds a reveal_tile emission.
C1_GameOverIsFinal ==
    [][\A b \in DOMAIN pc :
          game_over[b] => /\ game_over'[b]
                          /\ sent'[b].reveal_tile = sent[b].reveal_tile]_vars

\* a gameState event with a playable board was handled after gameOver
C1_Witness ==
    \E b \in DOMAIN pc :
        /\ JustRan(b, "on_game_state")
        /\ game_over[b]
        /\ move_choices(last.data) # {}
        /\ emitted = NoEmission

\* C2: for a snapshot with an unrevealed cell the move is exactly one
\* reveal_tile, at a position inside rows x cols whose cell is not revealed.
C2_MoveIsLegal ==
    \A b \in DOMAIN pc :
        (/\ JustRan(b, "on_game_state")
         /\ ~game_over[b]
         /\ IsSnapshot(last.data)
         /\ HiddenCells(last.data) # {})
        => /\ Len(emitted) = 1
           /\ sent[b].reveal_tile = 1
           /\ emitted[1].event = "reveal_tile"
           /\ emitted[1].bot = b
           /\ LET pos == emitted[1].position
                  grid == last.data.boardState[1]
              IN  /\ pos.y \in 0 .. (last.data.boardConfig[1].rows[1] - 1)
                  /\ pos.x \in 0 .. (last.data.boardConfig[1].cols[1] - 1)
                  /\ grid[pos.y + 1][pos.x + 1] # "revealed"

\* a move on a grid that is not square and has revealed and unrevealed cells
C2_Witness ==
    \E b \in DOMAIN pc :
        /\ JustRan(b, "on_game_state")
        /\ ~game_over[b]
        /\ IsSnapshot(last.data)
        /\ Len(last.data.boardState[1]) # Len(last.data.boardState[1][1])
        /\ HiddenCells(last.data) # {}
        /\ \E r \in 1 .. Len(last.data.boardState[1]) :
              \E c \in 1 .. Len(last.data.boardState[1][1]) :
                 last.data.boardState[1][r][c] = "revealed"
        /\ Len(emitted) = 1

\* C3: handling a gameState whose grid has every cell revealed emits nothing
\* and changes no field of the bot.
C3_AllRevealedNoOp ==
    [][\A b \in DOMAIN pc :
          (/\ Handling(b, "gameState")
           /\ Head(inbox[b]).data.boardState # Absent
           /\ Head(inbox[b]).data.boardState[1] # <<>>
           /\ HiddenCells(Head(inbox[b]).data) = {})
          => /\ emitted' = NoEmission
             /\ UNCHANGED <<fields, sent, sio, registered, pc, play>>]_vars

\* a snapshot without an unrevealed cell went through make_random_move
C3_Witness ==
    \E b \in DOMAIN pc :
        /\ JustRan(b, "on_game_state")
        /\ ~game_over[b]
        /\ IsSnapshot(last.data)
        /\ HiddenCells(last.data) = {}
        /\ Len(last.data.boardState[1]) > 1
        /\ emitted = NoEmission

\* C4: a gameState payload without boardState or without boardConfig makes
\* no emission and raises no error.
C4_MissingFieldNoOp ==
    \A b \in DOMAIN pc :
        (/\ JustRan(b, "on_game_state")
         /\ (last.data.boardState = Absent \/ last.data.boardConfig = Absent))
        => /\ emitted = NoEmission
           /\ last.error = "none"
           /\ sent[b].reveal_tile = 0

\* a playable grid without its boardConfig went through make_random_move
C4_Witness ==
    \E b \in DOMAIN pc :
        /\ JustRan(b, "on_game_state")
        /\ ~game_over[b]
        /\ last.data.boardConfig = Absent
        /\ last.data.boardState # Absent
        /\ last.data.boardState[1] # <<>>
        /\ HiddenCells(last.data) # {}

\* C5: a bot has emitted exactly one createGame from the moment its
\* connection succeeded, and none when it did not.
C5_OneCreateGame ==
    \A b \in DOMAIN pc :
        sent[b].createGame = (IF connected[b] THEN 1 ELSE 0)

\* a connected bot, rejected by the backend, at the end of its run
C5_Witness ==
    \E b \in DOMAIN pc :
        /\ connected[b]
        /\ pc[b] = "returned"
        /\ \E h \in handled[b] : h.type = "gameCreated" /\ ~h.truthy
        /\ sent[b].createGame = 1

RECURSIVE BurstTotal(_)
BurstTotal(tasks) ==
    IF tasks = <<>> THEN 0 ELSE Head(tasks).n + BurstTotal(Tail(tasks))

Rejected(b) == \E h \in handled[b] : h.type = "gameCreated" /\ ~h.truthy

\* C7 as stated: after a falsy gameCreated was handled the bot emits nothing
\* any more.
C7_SilentAfterRejection ==
    [][\A b \in DOMAIN pc : Rejected(b) => sent'[b] = sent[b]]_vars

\* every event the bot has handled is a falsy response or a gameOver
OnlyRejections(b) ==
    \A h \in handled[b] : h.type = "gameOver" \/ (h.type # "gameState" /\ ~h.truthy)

\* C7 amended: handling a falsy gameCreated emits nothing and changes no
\* field nor the connection; a bot that was delivered nothing but falsy
\* responses and gameOver has emitted its one createGame and nothing else.
C7_RejectionIsSilent ==
    /\ [][\A b \in DOMAIN pc :
            (Handling(b, "gameCreated") /\ ~Head(inbox[b]).data.truthy)
            => /\ emitted' = NoEmission
               /\ UNCHANGED <<fields, sent, sio, registered, pc, play>>]_vars
    /\ [](\A b \in DOMAIN pc :
            (Rejected(b) /\ OnlyRejections(b)) => sent[b] = CreateOnly)

\* a rejected bot that went on to handle a falsy gameJoined
C7_Witness ==
    \E b \in DOMAIN pc :
        /\ Rejected(b)
        /\ OnlyRejections(b)
        /\ JustRan(b, "on_game_joined")
        /\ sent[b] = CreateOnly

\* C8: a truthy gameCreated with gameId g sets game_id to g and emits one
\* joinGame with g and the bot's username; joinGame is emitted by no other
\* step, so never before createGame nor without a truthy gameCreated.
C8_JoinFollowsCreated ==
    /\ [](\A b \in DOMAIN pc :
            /\ (/\ JustRan(b, "on_game_created")
                /\ last.data.truthy
                /\ last.data.id # NoneStr)
               => /\ game_id[b] = last.data.id
                  /\ emitted = <<[bot |-> b, event |-> "joinGame",
                                  gameId |-> last.data.id, username |-> username(b)]>>
            /\ sent[b].joinGame > 0
               => /\ sent[b].createGame = 1
                  /\ \E h \in handled[b] :
                        h.type = "gameCreated" /\ h.truthy /\ h.id \in GameIds)
    /\ [][\A b \in DOMAIN pc :
            sent'[b].joinGame # sent[b].joinGame
            => /\ Handling(b, "gameCreated")
               /\ Head(inbox[b]).data.truthy
               /\ sent'[b].joinGame = sent[b].joinGame + 1]_vars

\* the bot joined game g1 that the backend confirmed
C8_Witness ==
    \E b \in DOMAIN pc :
        /\ JustRan(b, "on_game_created")
        /\ last.data.truthy
        /\ last.data.id = "g1"
        /\ game_id[b] = "g1"
        /\ Len(emitted) = 1
        /\ emitted[1].event = "joinGame"

\* C9: a truthy gameJoined with playerId p sets player_id to p and starts a
\* burst (its first revealTile); a falsy one emits nothing, changes no field,
\* starts no burst and leaves the connection as it is.
C9_JoinedStartsPlay ==
    /\ [](\A b \in DOMAIN pc :
            (/\ JustRan(b, "on_game_joined")
             /\ last.data.truthy
             /\ last.data.id # NoneStr)
            => /\ player_id[b] = last.data.id
               /\ Len(emitted) = 1
               /\ emitted[1].event = "revealTile"
               /\ emitted[1].bot = b
               /\ play[b] # <<>>
               /\ play[b][Len(play[b])] = [n |-> 1, done |-> FALSE])
    /\ [][\A b \in DOMAIN pc :
            (Handling(b, "gameJoined") /\ ~Head(inbox[b]).data.truthy)
            => /\ emitted' = NoEmission
               /\ UNCHANGED <<fields, sent, sio, registered, pc, play>>]_vars

\* a falsy gameJoined handled by a bot that an earlier gameJoined set playing
C9_Witness ==
    \E b \in DOMAIN pc :
        /\ JustRan(b, "on_game_joined")
        /\ ~last.data.truthy
        /\ player_id[b] = "p1"
        /\ play[b] # <<>>
        /\ sio[b] = "connected"

\* C10: a bot whose sio.connect failed has returned from connect() for
\* good, with connected false, no handler registered and nothing emitted,
\* and main() sees no exception.
C10_ConnectFailureIsTerminal ==
    /\ [](/\ runner # "failed"
          /\ \A b \in DOMAIN pc :
                (~connected[b] /\ pc[b] \notin {"start", "connecting"})
                => /\ pc[b] = "returned"
                   /\ registered[b] = {}
                   /\ sent[b] = NoCounts
                   /\ sio[b] = "idle"
                   /\ inbox[b] = <<>>)
    /\ [][\A b \in DOMAIN pc :
            (~connected[b] /\ pc[b] = "returned")
            => (~connected'[b] /\ pc'[b] = "returned")]_vars

\* the run ended with a bot that never connected
C10_Witness ==
    \E b \in DOMAIN pc :
        /\ ~connected[b]
        /\ pc[b] = "returned"
        /\ runner = "done"


\* a truthy gameCreated that carries an id has been handled
Confirmed(b) ==
    \E h \in handled[b] : h.type = "gameCreated" /\ h.truthy /\ h.id \in GameIds

\* a truthy gameJoined that carries an id has been handled
Admitted(b) ==
    \E h \in handled[b] : h.type = "gameJoined" /\ h.truthy /\ h.id \in PlayerIds

\* C12 as stated: once game_id holds a server-confirmed id it is not
\* assigned another value.
C12_GameIdSetOnce ==
    [][\A b \in DOMAIN pc :
          game_id[b] \in GameIds => game_id'[b] = game_id[b]]_vars

\* C12 amended: game_id goes from None to the placeholder when connect()
\* succeeds, and is then assigned by every truthy gameCreated the id that
\* response carries and by nothing else; it never goes back to the
\* placeholder or to None.
C12_GameIdFollowsCreated ==
    /\ [](\A b \in DOMAIN pc :
            /\ game_id[b] \in GameIds <=> Confirmed(b)
            /\ game_id[b] = NoneStr <=> ~connected[b]
            /\ (/\ JustRan(b, "on_game_created")
                /\ last.data.truthy
                /\ last.data.id # NoneStr) => game_id[b] = last.data.id)
    /\ [][\A b \in DOMAIN pc :
            game_id'[b] # game_id[b]
            => \/ (pc[b] = "connecting" /\ game_id'[b] = placeholder(b))
               \/ /\ Handling(b, "gameCreated")
                  /\ Head(inbox[b]).data.truthy
                  /\ game_id'[b] = Head(inbox[b]).data.id
                  /\ game_id'[b] \in GameIds]_vars

\* a second truthy gameCreated replaced the id the first one confirmed
C12_Witness ==
    \E b \in DOMAIN pc :
        /\ JustRan(b, "on_game_created")
        /\ game_id[b] = "g2"
        /\ \E h \in handled[b] : h.type = "gameCreated" /\ h.id = "g1"

\* where a bot is in its lifecycle
Stage(b) ==
    IF pc[b] = "start" THEN 0
    ELSE IF pc[b] = "connecting" THEN 1
    ELSE IF ~connected[b] THEN 6
    ELSE IF sio[b] = "disconnected" THEN 6
    ELSE IF game_over[b] THEN 5
    ELSE IF play[b] # <<>> THEN 4
    ELSE IF Confirmed(b) THEN 3
    ELSE 2

\* C13 as stated: a bot that has emitted a burst or a state-driven reveal
\* has been through awaiting-game-created and awaiting-game-joined.
C13_PlaysOnlyAfterJoin ==
    \A b \in DOMAIN pc :
        (sent[b].revealTile > 0 \/ sent[b].reveal_tile > 0)
        => (Confirmed(b) /\ Admitted(b))

\* C13 amended: a bot never moves back in the order disconnected,
\* connecting, awaiting-game-created, awaiting-game-joined, playing,
\* game-over, disconnected, and it emits a reveal only after its createGame,
\* a burst only after a truthy gameJoined and a state-driven reveal only
\* before game-over; it may skip awaiting-game-created and
\* awaiting-game-joined, since gameJoined and gameState are acted on in
\* whatever order the backend delivers them.
C13_LifecycleOrder ==
    /\ [][\A b \in DOMAIN pc :
            /\ Stage(b)' >= Stage(b)
            /\ sent'[b].reveal_tile # sent[b].reveal_tile => Stage(b) \in 2 .. 4]_vars
    /\ [](\A b \in DOMAIN pc :
            /\ (sent[b].revealTile > 0 \/ sent[b].reveal_tile > 0)
               => (sent[b].createGame = 1 /\ Stage(b) >= 2)
            /\ sent[b].revealTile > 0 => Admitted(b))

\* a bot that played without a confirmed game, through to disconnected
C13_Witness ==
    \E b \in DOMAIN pc :
        /\ sent[b].revealTile > 0
        /\ ~Confirmed(b)
        /\ connected[b]
        /\ Stage(b) = 6

\* a grid that is smaller than its boardConfig (or the default 8 x 8) says
Malformed(d) ==
    /\ d.boardState # Absent
    /\ d.boardState[1] # <<>>
    /\ ~config_falsy(d.boardConfig)
    /\ \/ Get(d.boardConfig[1].rows, DefaultDim) > Len(d.boardState[1])
       \/ Get(d.boardConfig[1].cols, DefaultDim) > Len(d.boardState[1][1])

\* C14: a malformed gameState payload raises no error and emits nothing.
C14_MalformedIgnored ==
    \A b \in DOMAIN pc :
        (JustRan(b, "on_game_state") /\ Malformed(last.data))
        => (last.error = "none" /\ emitted = NoEmission)

\* C17: a connected bot that has handled no gameOver (whatever responses it
\* got) has its connection open, is still inside connect(), and main() has
\* not finished.
C17_StallsWithoutGameOver ==
    \A b \in DOMAIN pc :
        (connected[b] /\ ~(\E h \in handled[b] : h.type = "gameOver"))
        => /\ sio[b] = "connected"
           /\ pc[b] \in {"creating", "waiting"}
           /\ runner = "running"

\* a bot that got only falsy responses, blocked in sio.wait() with nothing
\* more to come
C17_Witness ==
    \E b \in DOMAIN pc :
        /\ Rejected(b)
        /\ OnlyRejections(b)
        /\ \E h \in handled[b] : h.type = "gameJoined"
        /\ nsent[b] = MaxInbound
        /\ inbox[b] = <<>>
        /\ pc[b] = "waiting"
        /\ sio[b] = "connected"

\* C18: once game_over is set the bot makes no further emission.
C18_SilentAfterGameOver ==
    [][\A b \in DOMAIN pc : game_over[b] => sent'[b] = sent[b]]_vars

\* C19 as stated: every burst revealTile carries a server-confirmed id.
C19_BurstUsesConfirmedId ==
    \A b \in DOMAIN pc :
        (Len(emitted) = 1 /\ emitted[1].bot = b /\ emitted[1].event = "revealTile")
        => emitted[1].gameId \in GameIds

\* C19 amended: a burst revealTile carries the game_id the bot holds when
\* it is emitted, which is never unset: a server-confirmed id if a
\* truthy gameCreated was handled before, the placeholder if not.
C19_BurstUsesCurrentId ==
    \A b \in DOMAIN pc :
        (Len(emitted) = 1 /\ emitted[1].bot = b /\ emitted[1].event = "revealTile")
        => /\ emitted[1].gameId = game_id[b]
           /\ emitted[1].gameId # NoneStr
           /\ emitted[1].gameId \in GameIds <=> Confirmed(b)
           /\ emitted[1].gameId = placeholder(b) <=> ~Confirmed(b)

\* a burst that went on with the id a gameCreated confirmed in its middle
C19_Witness ==
    \E b \in DOMAIN pc :
        /\ Len(emitted) = 1
        /\ emitted[1].event = "revealTile"
        /\ emitted[1].gameId = "g1"
        /\ last = NoHandler
        /\ emitted[1].bot = b
        /\ \E t \in DOMAIN play[b] : play[b][t].n > 1 /\ play[b][t].n < BurstLen
        /\ \E h \in handled[b] : h.type = "gameCreated" /\ h.id = "g1"

\* C20 as stated: a bot emits at most BurstLen burst revealTile in a run.
C20_OneBurstPerRun ==
    \A b \in DOMAIN pc : sent[b].revealTile <= BurstLen

\* C20 amended: play_game is invoked once by every truthy gameJoined and by
\* nothing else, so a bot emits at most BurstLen burst revealTile for each
\* truthy gameJoined it is delivered.
C20_OneBurstPerJoined ==
    /\ [](\A b \in DOMAIN pc :
            /\ sent[b].revealTile <= BurstLen * Len(play[b])
            /\ play[b] # <<>> => Admitted(b))
    /\ [][\A b \in DOMAIN pc :
            play'[b] # play[b]
            => \/ Len(play'[b]) = Len(play[b])
               \/ /\ Handling(b, "gameJoined")
                  /\ Head(inbox[b]).data.truthy
                  /\ Len(play'[b]) = Len(play[b]) + 1]_vars

\* two bursts of one bot, both through
C20_Witness ==
    \E b \in DOMAIN pc :
        /\ Len(play[b]) = 2
        /\ \A t \in DOMAIN play[b] : play[b][t].done
        /\ sent[b].revealTile = 2 * BurstLen


\* the bot's sio.connect() failed and its connect() has returned
ConnectFailed(b) == pc[b] = "returned" /\ ~connected[b]

\* C11: main() is done only when connect() of every bot has returned, it
\* never ends with an exception, and it is done eventually once every bot
\* has either failed to connect or handled a gameOver.
C11_RunnerWaitsForAll ==
    /\ [](runner = "done" => \A b \in DOMAIN pc : pc[b] = "returned")
    /\ [](runner # "failed")
    /\ (\A b \in DOMAIN pc : ConnectFailed(b) \/ game_over[b]) ~> (runner = "done")

\* main() is done after one bot failed to connect and the other was
\* disconnected by a gameOver
C11_Witness ==
    /\ runner = "done"
    /\ \E b \in DOMAIN pc : ConnectFailed(b)
    /\ \E b \in DOMAIN pc : connected[b] /\ game_over[b] /\ sio[b] = "disconnected"

\* everything a bot owns, and what is kept about it
BotState(b) ==
    <<game_id[b], player_id[b], connected[b], game_over[b], sio[b],
      registered[b], pc[b], play[b], sent[b], handled[b], inbox[b], nsent[b]>>

\* the step is a failure of bot i: its connection fails, a handler of it
\* gets a falsy response, or a handler of it raises
Fails(i) ==
    \/ (pc[i] = "connecting" /\ ~connected'[i] /\ pc'[i] # "connecting")
    \/ /\ last'.bot = i
       /\ \/ last'.error # "none"
          \/ (last'.op \in {"on_game_created", "on_game_joined"} /\ ~last'.data.truthy)

\* C15: a failure step of one bot leaves every other bot and main() as they
\* are; main() never ends with an exception nor before every bot has
\* returned; and until then the next step of a bot's own lifecycle is
\* enabled by its own state alone, whatever has failed in the others.
C15_FailuresAreContained ==
    /\ [][\A i \in DOMAIN pc :
            Fails(i) => /\ runner' = runner
                        /\ \A j \in DOMAIN pc \ {i} : BotState(j)' = BotState(j)]_vars
    /\ [](runner # "failed")
    /\ []((\E b \in DOMAIN pc : pc[b] # "returned") => runner = "running")
    /\ [](\A j \in DOMAIN pc :
            /\ pc[j] = "start" => ENABLED connect(j)
            /\ pc[j] = "connecting" => (ENABLED connect_ok(j) /\ ENABLED connect_failed(j))
            /\ pc[j] = "creating" => ENABLED create_done(j)
            /\ (Open(j) /\ inbox[j] # <<>>)
               => ENABLED (on_game_created(j) \/ on_game_joined(j) \/
                           on_game_state(j) \/ on_game_over(j))
            /\ sio[j] = "disconnecting" => ENABLED disconnected(j)
            /\ (pc[j] = "waiting" /\ sio[j] = "disconnected") => ENABLED wait_returns(j)
            /\ \A t \in DOMAIN play[j] :
                  (~play[j][t].done /\ pc[j] # "returned") => ENABLED play_step(j, t))

\* a bot went through its run to the end of connect() next to a bot whose
\* handler raised and that is stuck in sio.wait()
C15_Witness ==
    \E i \in DOMAIN pc : \E j \in DOMAIN pc \ {i} :
        /\ \E h \in handled[i] : h.type = "gameCreated" /\ h.truthy /\ h.id = NoneStr
        /\ pc[i] = "waiting"
        /\ pc[j] = "returned"
        /\ connected[j]
        /\ game_over[j]

\* the fields and the connection of a bot
Owned(b) == <<game_id[b], player_id[b], connected[b], game_over[b], sio[b]>>

\* C16: a step in which a handler of bot i runs, and any other step of bot
\* i, leaves the fields and the connection of every other bot unchanged.
C16_BotsShareNothing ==
    [][\A i \in DOMAIN pc :
          (last'.bot = i \/ Owned(i)' # Owned(i))
          => \A j \in DOMAIN pc \ {i} : Owned(j)' = Owned(j)]_vars

\* a handler of one bot set its flag while the other bot, connected and
\* with an event handled, kept its own
C16_Witness ==
    \E i \in DOMAIN pc : \E j \in DOMAIN pc \ {i} :
        /\ JustRan(i, "on_game_over")
        /\ game_over[i]
        /\ connected[j]
        /\ handled[j] # {}
        /\ ~game_over[j]
        /\ sio[j] = "connected"

====
